---- MODULE Spec2Model ----
(***************************************************************************)
(* Model of the interview-preparation server: the question/answer parsers  *)
(* of chatController.js, the answer evaluator of utils/gemini and the      *)
(* submitAnswers request handler.                                          *)
(*                                                                         *)
(* A string is a sequence of one-character strings; "\n" is the line       *)
(* terminator String.prototype.split('\n') cuts on.                        *)
(***************************************************************************)
EXTENDS Integers, Sequences, FiniteSets, TLC

VARIABLES
  pText,       \* parser harness: the text handed to the parser
  pCall,       \* "none", "parseQuestions" or "parseAnswers"
  pExpected,   \* the expectedCount argument of the parseAnswers call
  pQuestions,  \* return value of parseQuestions(pText)
  pAnswers     \* return value of parseAnswers(pText, pExpected)

VARIABLES
  ePc,         \* evaluateAllAnswers: "idle", "calling", "sleeping", "resolved", "rejected"
  ePairs,      \* its questionsAndAnswers argument: [isNull, length]
  eI,          \* loop index i of retryWithBackoff
  eCalls,      \* completion calls issued so far
  eDelays,     \* backoff delays slept so far, in ms
  eOutcomes,   \* what the provider answered to each call, in call order
  eResult      \* the list of evaluations the call resolved to

VARIABLES
  chat,        \* the stored Chat document of the session
  docs,        \* types of the Documents stored for the session
  sPc,         \* submitAnswers in flight: "idle", "embedding" or "evaluating"
  sReq,        \* its locals: answersText, questions, answers
  sPairs,      \* its questionsAndAnswers
  embedCalls,  \* generateEmbedding calls made by the current request
  gen,         \* its generateInterviewQuestions call: completion calls, outcome
  req,         \* the request being served, or served last
  res          \* the response sent by the last request

VARIABLES
  vQuery,      \* vector search harness: the queryEmbedding argument
  vChunks,     \* the chunks argument: [missing, items]
  vCall,       \* "none", "cosineSimilarity" or "findSimilarChunks"
  vArg,        \* cosineSimilarity: position of the chunk compared; else topK
  vSim,        \* outcome of cosineSimilarity(vQuery, chunk embedding)
  vFound       \* return value of findSimilarChunks(vQuery, vChunks, vArg)

VARIABLES
  gTask,       \* provider harness: the function called, or "none"
  gArgs,       \* its arguments: [missing, texts, numQuestions, retries]
  gPc,         \* "idle", "calling", "awaiting", "sleeping", "resolved", "rejected"
  gPos,        \* position in texts of the text being embedded
  gI,          \* loop index i of the retryWithBackoff call in progress
  gLog,        \* provider calls issued so far, in order
  gDelays,     \* backoff delays slept so far, in ms
  gEmbeddings, \* the embeddings list of generateEmbeddings
  gOutcome     \* what the function returned or threw

VARIABLES
  store,       \* the Document collection
  uPc,         \* per process: "idle", "find", "delete", "upload" or "create"
  uReq,        \* per process: the uploadForSession request it serves
  uExisting,   \* per process: _id of its existingDoc, 0 for none
  uCount,      \* upload requests taken up so far
  uCreated,    \* documents created so far
  uLast        \* the response sent last

parserVars == <<pText, pCall, pExpected, pQuestions, pAnswers>>
evalVars == <<ePc, ePairs, eI, eCalls, eDelays, eOutcomes, eResult>>
ctrlVars == <<chat, docs, sPc, sReq, sPairs, embedCalls, gen, req, res>>
searchVars == <<vQuery, vChunks, vCall, vArg, vSim, vFound>>
providerVars == <<gTask, gArgs, gPc, gPos, gI, gLog, gDelays, gEmbeddings, gOutcome>>
storeVars == <<store, uPc, uReq, uExisting, uCount, uCreated, uLast>>
utilVars == <<searchVars, providerVars, storeVars>>
vars == <<parserVars, evalVars, ctrlVars, utilVars>>

\* ------------------------------------------------------------------ bounds
\* Largest number of lines of a text handed to the parsers.
MaxLines == 2
\* Largest number of question/answer pairs handed to evaluateAllAnswers.
MaxPairs == 2
\* Largest number of 'Question N:' delimiters in a model response.
MaxBlocks == 2
\* Largest number of accepted submissions on the session.
MaxSubmits == 2
\* Largest number of chunks handed to findSimilarChunks.
MaxChunks == 3
\* Largest retries argument handed to retryWithBackoff.
MaxBudget == 4
\* Largest number of texts handed to generateEmbeddings.
MaxTexts == 2
\* Largest number of upload requests.
MaxUploads == 3

\* ------------------------------------------------------- program constants
MAX_RETRIES == 3
INITIAL_RETRY_DELAY == 1000

\* ----------------------------------------------------------- string helpers
NL == "\n"
SP == " "

Digits == {"0", "1", "2", "3", "4", "5", "6", "7", "8", "9"}

IsSpace(c) == c \in {SP, "\t", NL}

DigitVal(c) ==
  CASE c = "0" -> 0 [] c = "1" -> 1 [] c = "2" -> 2 [] c = "3" -> 3
    [] c = "4" -> 4 [] c = "5" -> 5 [] c = "6" -> 6 [] c = "7" -> 7
    [] c = "8" -> 8 [] c = "9" -> 9

\* s.slice(from) with from counted from 1
Tail_(s, from) == SubSeq(s, from, Len(s))

RECURSIVE TrimStart(_)
TrimStart(s) ==
  IF s # <<>> /\ IsSpace(Head(s)) THEN TrimStart(Tail(s)) ELSE s

RECURSIVE TrimEnd(_)
TrimEnd(s) ==
  IF s # <<>> /\ IsSpace(s[Len(s)]) THEN TrimEnd(SubSeq(s, 1, Len(s) - 1)) ELSE s

\* String.prototype.trim
Trim(s) == TrimEnd(TrimStart(s))

\* String.prototype.split('\n'): always at least one piece
RECURSIVE Split(_)
Split(s) ==
  IF \E i \in 1..Len(s) : s[i] = NL
  THEN LET i == CHOOSE j \in 1..Len(s) : s[j] = NL /\ \A k \in 1..(j - 1) : s[k] # NL
       IN  <<SubSeq(s, 1, i - 1)>> \o Split(Tail_(s, i + 1))
  ELSE <<s>>

\* Array.prototype.join('\n')
RECURSIVE Join(_)
Join(ls) ==
  IF ls = <<>> THEN <<>>
  ELSE IF Len(ls) = 1 THEN ls[1]
  ELSE ls[1] \o <<NL>> \o Join(Tail(ls))

\* number of leading decimal digits of a line: the greedy match of (\d+)
RECURSIVE DigitPrefix(_)
DigitPrefix(s) ==
  IF s # <<>> /\ Head(s) \in Digits THEN 1 + DigitPrefix(Tail(s)) ELSE 0

\* parseInt of a string of decimal digits
RECURSIVE ParseInt(_)
ParseInt(ds) ==
  IF ds = <<>> THEN 0
  ELSE 10 * ParseInt(SubSeq(ds, 1, Len(ds) - 1)) + DigitVal(ds[Len(ds)])

\* ------------------------------------------------- line.match(/^(\d+)\.\s*(.+)/)
\* A line is a piece of split('\n'), so it holds no "\n".  (\d+) takes the
\* whole digit prefix, a period must follow, and (.+) needs at least one more
\* character.  \s* is greedy but gives a character back when nothing would be
\* left for (.+); the caller trims group 2, so its trimmed value is the
\* trimmed rest of the line either way.
Rest(line) == Tail_(line, DigitPrefix(line) + 2)

LineMatches(line) ==
  LET d == DigitPrefix(line)
  IN  /\ d >= 1
      /\ Len(line) >= d + 2
      /\ line[d + 1] = "."

\* parseInt(match[1])
MatchNumber(line) == ParseInt(SubSeq(line, 1, DigitPrefix(line)))

\* match[2].trim()
MatchText(line) == Trim(Rest(line))

\* the loop body shared by parseQuestions and parseAnswers
RECURSIVE MatchedEntries(_)
MatchedEntries(lines) ==
  IF lines = <<>> THEN <<>>
  ELSE (IF LineMatches(Head(lines))
        THEN <<[number |-> MatchNumber(Head(lines)), text |-> MatchText(Head(lines))]>>
        ELSE <<>>) \o MatchedEntries(Tail(lines))

NonBlank(line) == Trim(line) # <<>>

\* lines.filter(l => l.trim())
RECURSIVE FilterNonBlank(_)
FilterNonBlank(lines) ==
  IF lines = <<>> THEN <<>>
  ELSE (IF NonBlank(Head(lines)) THEN <<Head(lines)>> ELSE <<>>)
       \o FilterNonBlank(Tail(lines))

MapTrim(lines) == [i \in 1..Len(lines) |-> Trim(lines[i])]

\* variant: the lines are trimmed before matching, as parseAnswers does
parseQuestions_Trimmed(text) == MatchedEntries(FilterNonBlank(MapTrim(Split(text))))

\* chatController.js parseQuestions
parseQuestions(text) == MatchedEntries(FilterNonBlank(Split(text)))

\* variant: accepts a batch with more answers than expected
parseAnswers_AtLeast(text, expectedCount) ==
  LET answers == MatchedEntries(FilterNonBlank(MapTrim(Split(text))))
  IN  IF Len(answers) >= expectedCount
      THEN [isNull |-> FALSE, answers |-> answers]
      ELSE [isNull |-> TRUE, answers |-> <<>>]

\* variant: renumbers the answers 1..expectedCount
parseAnswers_Renumbered(text, expectedCount) ==
  LET answers == MatchedEntries(FilterNonBlank(MapTrim(Split(text))))
  IN  IF Len(answers) = expectedCount
      THEN [isNull |-> FALSE,
            answers |-> [i \in 1..Len(answers) |-> [number |-> i, text |-> answers[i].text]]]
      ELSE [isNull |-> TRUE, answers |-> <<>>]

\* chatController.js parseAnswers; isNull stands for the null return value
parseAnswers(text, expectedCount) ==
  LET answers == MatchedEntries(FilterNonBlank(MapTrim(Split(text))))
  IN  IF Len(answers) = expectedCount
      THEN [isNull |-> FALSE, answers |-> answers]
      ELSE [isNull |-> TRUE, answers |-> <<>>]

\* ================================================================ gemini.js
\* ------------------------------------------------------- retryWithBackoff
RECURSIVE Pow2(_)
Pow2(i) == IF i = 0 THEN 1 ELSE 2 * Pow2(i - 1)

\* variant: every sleep is as long as the first
BackoffDelay_Constant(i) == INITIAL_RETRY_DELAY

\* INITIAL_RETRY_DELAY * Math.pow(2, i)
BackoffDelay(i) == INITIAL_RETRY_DELAY * Pow2(i)

\* variant: every error is retried until the budget is used up
RetryRethrows_LastOnly(i, retries, isRateLimitError) == i = retries - 1

\* variant: one more attempt than the budget
RetryRethrows_OneMore(i, retries, isRateLimitError) == i = retries \/ ~isRateLimitError

\* the catch block of retryWithBackoff at loop index i: rethrow or sleep
RetryRethrows(i, retries, isRateLimitError) ==
  LET isLastRetry == (i = retries - 1)
  IN  isLastRetry \/ ~isRateLimitError

\* ----------------------------------------------------- evaluateAllAnswers
\* A model response is cut by text.split(/Question \d+:/i) into pieces: the
\* text before the first delimiter, then one piece per delimiter.  Of a piece
\* the parser reads whether it is blank and, for each of the labels
\* Relevance, Correctness and Overall, the first number written after it.
NoField == [present |-> FALSE, value |-> 0]
Written(v) == [present |-> TRUE, value |-> v]
ScoresWritten == {0, 7, 12}
FieldVals == {NoField} \cup { Written(v) : v \in ScoresWritten }

Piece(r, c, o) == [blank |-> FALSE, relevance |-> r, correctness |-> c, overall |-> o]
BlankPiece == [blank |-> TRUE, relevance |-> NoField, correctness |-> NoField, overall |-> NoField]
\* a piece of text without any score
Unscored == Piece(NoField, NoField, NoField)
Pieces == {BlankPiece} \cup { Piece(r, c, o) : r \in FieldVals, c \in FieldVals, o \in FieldVals }
\* text before the first delimiter: nothing, or an introduction without scores
IntroPieces == {BlankPiece, Unscored}
\* the plain blocks around the one block whose fields vary freely
PlainPieces == {BlankPiece, Unscored, Piece(Written(7), Written(7), Written(7))}

\* the responses the provider may give: an introduction, then up to MaxBlocks
\* delimited blocks, one of them with any combination of fields
Responses ==
  UNION { { <<intro>> \o [bs EXCEPT ![j] = p] :
              intro \in IntroPieces, bs \in [1..k -> PlainPieces], j \in 1..k, p \in Pieces }
          : k \in 1..MaxBlocks }
    \cup { <<intro>> : intro \in IntroPieces }

\* !text || text.trim().length === 0: no delimiter and nothing but blanks
IsBlankText(resp) == Len(resp) = 1 /\ resp[1].blank

\* .filter(block => block.trim())
RECURSIVE QuestionBlocks(_)
QuestionBlocks(pieces) ==
  IF pieces = <<>> THEN <<>>
  ELSE (IF Head(pieces).blank THEN <<>> ELSE <<Head(pieces)>>) \o QuestionBlocks(Tail(pieces))

Max(a, b) == IF a >= b THEN a ELSE b
Min(a, b) == IF a <= b THEN a ELSE b
\* variant: only the lower limit is enforced
Clamp_NoUpper(x) == Max(1, x)

\* Math.max(1, Math.min(10, x))
Clamp(x) == Max(1, Min(10, x))
\* Math.round(x / 2) for x >= 0
RoundHalf(x) == (x + 1) \div 2

\* variant: a missing Relevance or Correctness counts as 0
EvaluateBlock_ZeroDefault(block) ==
  LET relevanceScore == IF block.relevance.present THEN block.relevance.value ELSE 0
      correctnessScore == IF block.correctness.present THEN block.correctness.value ELSE 0
      overallScore == IF block.overall.present THEN block.overall.value
                      ELSE RoundHalf(relevanceScore + correctnessScore)
  IN  [score |-> Clamp(overallScore),
       relevanceScore |-> Clamp(relevanceScore),
       correctnessScore |-> Clamp(correctnessScore),
       feedback |-> "block"]

\* variant: the default of Overall is taken from the limited scores
EvaluateBlock_AverageOfLimited(block) ==
  LET relevanceScore == IF block.relevance.present THEN block.relevance.value ELSE 5
      correctnessScore == IF block.correctness.present THEN block.correctness.value ELSE 5
      overallScore == IF block.overall.present THEN block.overall.value
                      ELSE RoundHalf(Clamp(relevanceScore) + Clamp(correctnessScore))
  IN  [score |-> Clamp(overallScore),
       relevanceScore |-> Clamp(relevanceScore),
       correctnessScore |-> Clamp(correctnessScore),
       feedback |-> "block"]

\* the body of the for loop over questionBlocks
EvaluateBlock(block) ==
  LET relevanceScore == IF block.relevance.present THEN block.relevance.value ELSE 5
      correctnessScore == IF block.correctness.present THEN block.correctness.value ELSE 5
      overallScore == IF block.overall.present THEN block.overall.value
                      ELSE RoundHalf(relevanceScore + correctnessScore)
  IN  [score |-> Clamp(overallScore),
       relevanceScore |-> Clamp(relevanceScore),
       correctnessScore |-> Clamp(correctnessScore),
       feedback |-> "block"]

PaddedEvaluation ==
  [score |-> 5, relevanceScore |-> 5, correctnessScore |-> 5, feedback |-> "padded"]
FallbackEvaluation ==
  [score |-> 5, relevanceScore |-> 5, correctnessScore |-> 5, feedback |-> "fallback"]

\* variant: surplus evaluations are not cut off
ParseEvaluations_NoTrim(resp, n) ==
  LET blocks == QuestionBlocks(resp)
      evaluations == [i \in 1..Len(blocks) |-> EvaluateBlock(blocks[i])]
  IN  evaluations \o [i \in 1..Max(0, n - Len(evaluations)) |-> PaddedEvaluation]

\* variant: the neutral evaluations are put in front
ParseEvaluations_PadFront(resp, n) ==
  LET blocks == QuestionBlocks(resp)
      evaluations == [i \in 1..Len(blocks) |-> EvaluateBlock(blocks[i])]
      padded == [i \in 1..Max(0, n - Len(evaluations)) |-> PaddedEvaluation] \o evaluations
  IN  SubSeq(padded, 1, n)

\* the callback of evaluateAllAnswers after a non-blank response: parse the
\* blocks, pad up to n evaluations, cut down to n
ParseEvaluations(resp, n) ==
  LET blocks == QuestionBlocks(resp)
      evaluations == [i \in 1..Len(blocks) |-> EvaluateBlock(blocks[i])]
      padded == evaluations \o [i \in 1..Max(0, n - Len(evaluations)) |-> PaddedEvaluation]
  IN  SubSeq(padded, 1, n)

\* variant: the catch block returns an empty list
FallbackEvaluations_Empty(n) == <<>>

\* the catch block: questionsAndAnswers.map(() => fallback)
FallbackEvaluations(n) == [i \in 1..n |-> FallbackEvaluation]

\* provider outcomes of one completion call
Transient == [kind |-> "transient", text |-> <<>>]
Permanent == [kind |-> "permanent", text |-> <<>>]
Answered(resp) == [kind |-> "text", text |-> resp]
ErrorOutcomes == {Transient, Permanent}

EvalIdle ==
  /\ ePc = "idle"
  /\ ePairs = [isNull |-> FALSE, length |-> 0]
  /\ eI = 0
  /\ eCalls = 0
  /\ eDelays = <<>>
  /\ eOutcomes = <<>>
  /\ eResult = <<>>

\* entry of evaluateAllAnswers with argument q: the input check, whose throw
\* lands in the catch block, where questionsAndAnswers.map raises for
\* null/undefined and yields [] for an empty list
EvalEnter(q) ==
  /\ ePairs' = q
  /\ ePc' = IF q.isNull THEN "rejected"
            ELSE IF q.length = 0 THEN "resolved"
            ELSE "calling"
  /\ eI' = 0
  /\ eCalls' = 0
  /\ eDelays' = <<>>
  /\ eOutcomes' = <<>>
  /\ eResult' = <<>>

PairsArguments ==
  [isNull : {FALSE}, length : 0..MaxPairs] \cup {[isNull |-> TRUE, length |-> 0]}

EvalStart ==
  /\ ePc = "idle"
  /\ \E q \in PairsArguments : EvalEnter(q)

\* one completion call fails: rethrown to the catch block of
\* evaluateAllAnswers, or followed by a backoff sleep
EvalCallFails ==
  /\ ePc = "calling"
  /\ \E o \in ErrorOutcomes :
       /\ eOutcomes' = Append(eOutcomes, o)
       /\ eCalls' = eCalls + 1
       /\ IF RetryRethrows(eI, MAX_RETRIES, o.kind = "transient")
          THEN /\ ePc' = "resolved"
               /\ eResult' = FallbackEvaluations(ePairs.length)
               /\ UNCHANGED eDelays
          ELSE /\ ePc' = "sleeping"
               /\ eDelays' = Append(eDelays, BackoffDelay(eI))
               /\ UNCHANGED eResult
  /\ UNCHANGED <<ePairs, eI>>

\* one completion call answers with a text of R.  A blank text is thrown as
\* Error('Empty evaluation response'): no status and no 'overloaded' in the
\* message, so retryWithBackoff rethrows it at once; any other text is parsed.
EvalCallAnswers(R) ==
  /\ ePc = "calling"
  /\ \E resp \in R :
       /\ eOutcomes' = Append(eOutcomes, Answered(resp))
       /\ eCalls' = eCalls + 1
       /\ ePc' = "resolved"
       /\ eResult' = IF IsBlankText(resp)
                     THEN FallbackEvaluations(ePairs.length)
                     ELSE ParseEvaluations(resp, ePairs.length)
  /\ UNCHANGED <<ePairs, eI, eDelays>>

\* the backoff timer fires: next loop iteration
EvalWake ==
  /\ ePc = "sleeping"
  /\ ePc' = "calling"
  /\ eI' = eI + 1
  /\ UNCHANGED <<ePairs, eCalls, eDelays, eOutcomes, eResult>>

\* ------------------------------------- cosineSimilarity, findSimilarChunks
\* A vector argument is missing (null/undefined) or an array of numbers.  nan
\* tells that some entry of the array is not a number; every sum over the
\* array is NaN then, and of values only the length matters.
Vector(values) == [missing |-> FALSE, nan |-> FALSE, values |-> values]
NaNVector(values) == [missing |-> FALSE, nan |-> TRUE, values |-> values]
NoVector == [missing |-> TRUE, nan |-> FALSE, values |-> <<>>]

\* sum of a[i] * b[i]
RECURSIVE Dot(_, _)
Dot(a, b) == IF a = <<>> THEN 0 ELSE Head(a) * Head(b) + Dot(Tail(a), Tail(b))

\* What a call of cosineSimilarity yields: an Error thrown, NaN, or the
\* number num / sqrt(den) with den > 0.
Similarity(num, den) == [thrown |-> FALSE, nan |-> FALSE, num |-> num, den |-> den]
NotANumber == [thrown |-> FALSE, nan |-> TRUE, num |-> 0, den |-> 1]
InvalidVectors == [thrown |-> TRUE, nan |-> FALSE, num |-> 0, den |-> 1]
Zero == Similarity(0, 1)

\* variant: no early return for a zero magnitude, 0 / 0 is NaN
cosineSimilarity_NoZeroCheck(vecA, vecB) ==
  IF vecA.missing \/ vecB.missing \/ Len(vecA.values) # Len(vecB.values)
  THEN InvalidVectors
  ELSE LET sqA == Dot(vecA.values, vecA.values)
           sqB == Dot(vecB.values, vecB.values)
       IN  IF vecA.nan \/ vecB.nan \/ sqA = 0 \/ sqB = 0 THEN NotANumber
           ELSE Similarity(Dot(vecA.values, vecB.values), sqA * sqB)

\* magnitudeA and magnitudeB are kept squared (sqA, sqB); the magnitude of a
\* vector with a NaN entry is NaN, which is not === 0
cosineSimilarity(vecA, vecB) ==
  IF vecA.missing \/ vecB.missing \/ Len(vecA.values) # Len(vecB.values)
  THEN InvalidVectors
  ELSE LET dotProduct == Dot(vecA.values, vecB.values)
           sqA == Dot(vecA.values, vecA.values)
           sqB == Dot(vecB.values, vecB.values)
       IN  IF (~vecA.nan /\ sqA = 0) \/ (~vecB.nan /\ sqB = 0) THEN Zero
           ELSE IF vecA.nan \/ vecB.nan THEN NotANumber
           ELSE Similarity(dotProduct, sqA * sqB)

\* a > b for two numbers num / sqrt(den)
Greater(a, b) ==
  IF a.num >= 0 /\ b.num < 0 THEN TRUE
  ELSE IF a.num < 0 /\ b.num >= 0 THEN FALSE
  ELSE IF a.num >= 0 THEN a.num * a.num * b.den > b.num * b.num * a.den
  ELSE a.num * a.num * b.den < b.num * b.num * a.den

\* variant: an item comes to stand before the earlier items equal to it
RECURSIVE Insert_BeforeEqual(_, _)
Insert_BeforeEqual(item, sorted) ==
  IF sorted = <<>> THEN <<item>>
  ELSE IF ~Greater(Head(sorted).similarity, item.similarity) THEN <<item>> \o sorted
  ELSE <<Head(sorted)>> \o Insert_BeforeEqual(item, Tail(sorted))

\* Array.prototype.sort is stable: under the comparator b.similarity -
\* a.similarity an item comes to stand behind every earlier item that is not
\* smaller.
RECURSIVE Insert(_, _)
Insert(item, sorted) ==
  IF sorted = <<>> THEN <<item>>
  ELSE IF Greater(item.similarity, Head(sorted).similarity) THEN <<item>> \o sorted
  ELSE <<Head(sorted)>> \o Insert(item, Tail(sorted))

\* variant: the list is left in input order
SortDescending_InputOrder(items) == items

\* .sort((a, b) => b.similarity - a.similarity)
RECURSIVE SortDescending(_)
SortDescending(items) ==
  IF items = <<>> THEN <<>>
  ELSE Insert(items[Len(items)], SortDescending(SubSeq(items, 1, Len(items) - 1)))

\* .filter(item => !isNaN(item.similarity))
IsNumber(item) == ~item.similarity.nan

\* chunks.map((chunk, index) => ({ index, chunk, similarity }))
Similarities(queryEmbedding, items) ==
  [i \in 1..Len(items) |->
     [index |-> i - 1, chunk |-> items[i],
      similarity |-> cosineSimilarity(queryEmbedding, items[i].embedding)]]

\* variant: items whose similarity is NaN are kept
findSimilarChunks_NoFilter(queryEmbedding, chunks, topK) ==
  IF queryEmbedding.missing \/ chunks.missing \/ Len(chunks.items) = 0 THEN <<>>
  ELSE LET similarities == Similarities(queryEmbedding, chunks.items)
       IN  IF \E i \in 1..Len(similarities) : similarities[i].similarity.thrown
           THEN <<>>
           ELSE SubSeq(SortDescending(similarities), 1, Min(topK, Len(similarities)))

\* variant: a chunk for which cosineSimilarity throws is skipped
findSimilarChunks_SkipsInvalid(queryEmbedding, chunks, topK) ==
  IF queryEmbedding.missing \/ chunks.missing \/ Len(chunks.items) = 0 THEN <<>>
  ELSE LET similarities == Similarities(queryEmbedding, chunks.items)
           computed(item) == IsNumber(item) /\ ~item.similarity.thrown
           sorted == SortDescending(SelectSeq(similarities, computed))
       IN  SubSeq(sorted, 1, Min(topK, Len(sorted)))

\* an Error thrown by cosineSimilarity is caught and answered by []
findSimilarChunks(queryEmbedding, chunks, topK) ==
  IF queryEmbedding.missing \/ chunks.missing \/ Len(chunks.items) = 0 THEN <<>>
  ELSE LET similarities == Similarities(queryEmbedding, chunks.items)
           sorted == SortDescending(SelectSeq(similarities, IsNumber))
       IN  IF \E i \in 1..Len(similarities) : similarities[i].similarity.thrown
           THEN <<>>
           ELSE SubSeq(sorted, 1, Min(topK, Len(sorted)))

Chunk(embedding) == [embedding |-> embedding]
Chunks(items) == [missing |-> FALSE, items |-> items]
NoChunks == [missing |-> TRUE, items |-> <<>>]

SearchIdle ==
  /\ vQuery = NoVector
  /\ vChunks = NoChunks
  /\ vCall = "none"
  /\ vArg = 0
  /\ vSim = Zero
  /\ vFound = <<>>

\* ------- retryWithBackoff, generateEmbedding(s), generateInterviewQuestions
\* One call of a provider-backed function is in flight at a time.  gLog lists
\* the provider calls it issued, each with the position and text it was
\* issued for and how the wrapped function ended: "pending" while awaited,
\* "ok", "unusable" (an answer the wrapped function rejects by throwing:
\* no embedding, empty text), "transient" (status 503 or 429, or 'overloaded'
\* in the message) or "permanent".
Call(pos, text, kind) == [pos |-> pos, text |-> text, kind |-> kind]
OutcomeKinds == {"ok", "unusable", "transient", "permanent"}

\* what the n-th provider call returned, and the error it ended with
ValueOf(log, n) == [call |-> n, pos |-> log[n].pos, text |-> log[n].text]
ErrorOf(log, n) == [kind |-> log[n].kind, call |-> n, wrapped |-> FALSE]
ValidationError == [kind |-> "validation", call |-> 0, wrapped |-> FALSE]
\* throw new Error(prefix + error.message) in a catch block
Wrapped(error) == [error EXCEPT !.wrapped = TRUE]
NoValue == [call |-> 0, pos |-> 0, text |-> <<>>]
NoError == [kind |-> "none", call |-> 0, wrapped |-> FALSE]

Returned(value) == [status |-> "returned", value |-> value, error |-> NoError]
Thrown(error) == [status |-> "thrown", value |-> NoValue, error |-> error]
NoOutcome == [status |-> "none", value |-> NoValue, error |-> NoError]

Arguments(missing, texts, numQuestions, retries) ==
  [missing |-> missing, texts |-> texts, numQuestions |-> numQuestions, retries |-> retries]
NoArguments == Arguments(FALSE, <<>>, 0, 0)

\* !text || text.trim().length === 0
IsBlank(missing, text) == missing \/ Trim(text) = <<>>

\* variant: the range of numQuestions is not looked at
QuestionsInputInvalid_TextOnly(missing, jdText, numQuestions) == IsBlank(missing, jdText)

\* the two input checks of generateInterviewQuestions
QuestionsInputInvalid(missing, jdText, numQuestions) ==
  \/ IsBlank(missing, jdText)
  \/ numQuestions < 2
  \/ numQuestions > 10

\* variant: the new embedding is put in front
PushEmbedding_Front(embeddings, result) == <<result>> \o embeddings

\* embeddings.push(result)
PushEmbedding(embeddings, result) == Append(embeddings, result)

\* only generateEmbedding, generateEmbeddings and generateInterviewQuestions
\* catch what retryWithBackoff throws, and throw a new Error in its place
ThrownBy(task, error) == IF task = "retryWithBackoff" THEN error ELSE Wrapped(error)

ProviderIdle ==
  /\ gTask = "none"
  /\ gArgs = NoArguments
  /\ gPc = "idle"
  /\ gPos = 0
  /\ gI = 0
  /\ gLog = <<>>
  /\ gDelays = <<>>
  /\ gEmbeddings = <<>>
  /\ gOutcome = NoOutcome

\* entry of a function: with invalid arguments it throws before any provider
\* call, otherwise it enters retryWithBackoff for its first (or only) text
Enter(task, args, invalid) ==
  /\ gPc = "idle"
  /\ gTask' = task
  /\ gArgs' = args
  /\ gPc' = IF invalid THEN "rejected" ELSE "calling"
  /\ gOutcome' = IF invalid THEN Thrown(ThrownBy(task, ValidationError)) ELSE NoOutcome
  /\ gPos' = IF invalid THEN 0 ELSE 1
  /\ UNCHANGED <<gI, gLog, gDelays, gEmbeddings>>

\* retryWithBackoff(fn, retries): with retries = 0 the loop body never runs
\* and the call returns undefined
StartRetry(budgets) ==
  \E retries \in budgets :
    IF retries = 0
    THEN /\ gPc = "idle"
         /\ gTask' = "retryWithBackoff"
         /\ gArgs' = Arguments(FALSE, <<<<>>>>, 0, 0)
         /\ gPc' = "resolved"
         /\ gOutcome' = Returned(NoValue)
         /\ UNCHANGED <<gPos, gI, gLog, gDelays, gEmbeddings>>
    ELSE Enter("retryWithBackoff", Arguments(FALSE, <<<<>>>>, 0, retries), FALSE)

StartEmbedding(texts) ==
  \E missing \in BOOLEAN : \E text \in (IF missing THEN {<<>>} ELSE texts) :
    Enter("generateEmbedding", Arguments(missing, <<text>>, 0, MAX_RETRIES),
          IsBlank(missing, text))

StartEmbeddings(lists) ==
  \E missing \in BOOLEAN : \E list \in (IF missing THEN {<<>>} ELSE lists) :
    Enter("generateEmbeddings", Arguments(missing, list, 0, MAX_RETRIES),
          missing \/ Len(list) = 0)

StartQuestions(texts, counts) ==
  \E missing \in BOOLEAN : \E jdText \in (IF missing THEN {<<>>} ELSE texts) :
    \E numQuestions \in counts :
      Enter("generateInterviewQuestions",
            Arguments(missing, <<jdText>>, numQuestions, MAX_RETRIES),
            QuestionsInputInvalid(missing, jdText, numQuestions))

\* fn() is invoked: the provider call for the text at gPos goes out
ProviderIssue ==
  /\ gPc = "calling"
  /\ gPc' = "awaiting"
  /\ gLog' = Append(gLog, Call(gPos, gArgs.texts[gPos], "pending"))
  /\ UNCHANGED <<gTask, gArgs, gPos, gI, gDelays, gEmbeddings, gOutcome>>

\* the awaited fn() ends.  On success retryWithBackoff returns its value at
\* once and the function goes on (next text, or return); on an error it
\* rethrows, or sleeps the backoff delay.
ProviderAnswers ==
  /\ gPc = "awaiting"
  /\ \E kind \in OutcomeKinds :
       LET n == Len(gLog)
           log == [gLog EXCEPT ![n].kind = kind]
       IN  /\ gLog' = log
           /\ IF kind = "ok"
              THEN /\ UNCHANGED gDelays
                   /\ IF gTask = "generateEmbeddings"
                      THEN /\ gEmbeddings' = PushEmbedding(gEmbeddings, ValueOf(log, n))
                           /\ IF gPos < Len(gArgs.texts)
                              THEN /\ gPos' = gPos + 1
                                   /\ gI' = 0
                                   /\ gPc' = "calling"
                                   /\ UNCHANGED gOutcome
                              ELSE /\ gPc' = "resolved"
                                   /\ gOutcome' = Returned(NoValue)
                                   /\ UNCHANGED <<gPos, gI>>
                      ELSE /\ gPc' = "resolved"
                           /\ gOutcome' = Returned(ValueOf(log, n))
                           /\ UNCHANGED <<gPos, gI, gEmbeddings>>
              ELSE /\ UNCHANGED <<gPos, gI, gEmbeddings>>
                   /\ IF RetryRethrows(gI, gArgs.retries, kind = "transient")
                      THEN /\ gPc' = "rejected"
                           /\ gOutcome' = Thrown(ThrownBy(gTask, ErrorOf(log, n)))
                           /\ UNCHANGED gDelays
                      ELSE /\ gPc' = "sleeping"
                           /\ gDelays' = Append(gDelays, BackoffDelay(gI))
                           /\ UNCHANGED gOutcome
  /\ UNCHANGED <<gTask, gArgs>>

\* the backoff timer fires: next round of the for loop
ProviderWake ==
  /\ gPc = "sleeping"
  /\ gPc' = "calling"
  /\ gI' = gI + 1
  /\ UNCHANGED <<gTask, gArgs, gPos, gLog, gDelays, gEmbeddings, gOutcome>>

\* ======================================================= chatController.js
\* One session "s1" of user "u1" exists; requests may name another session
\* or come from another user.  Requests are served one at a time.
Users == {"u1", "u2"}
SessionIds == {"s1", "s2"}
ChatFound(user, chatId) == user = "u1" /\ chatId = "s1"

\* message contents: a text, or the feedback line of question `label`
TextContent(t) == [kind |-> "text", text |-> t, label |-> 0, feedback |-> ""]
FeedbackContent(idx, fb) == [kind |-> "feedback", text |-> <<>>, label |-> idx, feedback |-> fb]

PlainMessage(role, content) ==
  [role |-> role, content |-> content, scored |-> FALSE,
   score |-> 0, relevanceScore |-> 0, correctnessScore |-> 0]

\* the message submitAnswers pushes for evaluations[idx - 1]
FeedbackMessage(idx, evaluation) ==
  [role |-> "assistant", content |-> FeedbackContent(idx, evaluation.feedback), scored |-> TRUE,
   score |-> evaluation.score, relevanceScore |-> evaluation.relevanceScore,
   correctnessScore |-> evaluation.correctnessScore]

RECURSIVE SumOf(_, _)
SumOf(msgs, field) ==
  IF msgs = <<>> THEN 0 ELSE Head(msgs)[field] + SumOf(Tail(msgs), field)

\* this.messages.filter(msg => msg.score !== undefined)
RECURSIVE ScoredMessages(_)
ScoredMessages(msgs) ==
  IF msgs = <<>> THEN <<>>
  ELSE (IF Head(msgs).scored THEN <<Head(msgs)>> ELSE <<>>) \o ScoredMessages(Tail(msgs))

\* (total / count).toFixed(1), in tenths
ToFixed1(total, count) == (20 * total + count) \div (2 * count)

\* Chat.calculateFinalScores
calculateFinalScores(c) ==
  LET scoredMessages == ScoredMessages(c.messages)
      n == Len(scoredMessages)
  IN  IF n = 0 THEN c
      ELSE [c EXCEPT !.finalScore = ToFixed1(SumOf(scoredMessages, "score"), n),
                     !.averageRelevance = ToFixed1(SumOf(scoredMessages, "relevanceScore"), n),
                     !.averageCorrectness = ToFixed1(SumOf(scoredMessages, "correctnessScore"), n)]

Response(handler, status, message) == [handler |-> handler, status |-> status, message |-> message]
NoResponse == Response("none", 0, "")

\* a request as received: the handler, whether Chat.findOne finds the session
\* for this user, and the answersText of the body
Request(handler, found, answersText) ==
  [handler |-> handler, found |-> found, answersText |-> answersText]

NoRequest == [answersText |-> <<>>, questions |-> <<>>, answers |-> <<>>]

\* what the completion provider may write when asked for questions: two
\* questions, the same after an introduction, in reverse order, one question
\* between blank lines, no question at all, a blank text, and the three
\* questions asked for
Q1 == <<"1", ".", "p">>
Q2 == <<"2", ".", SP, "q">>
Q3 == <<"3", ".", "r">>
GeneratedTexts ==
  { Join(<<Q1, Q2>>), Join(<<<<"x">>, Q1, Q2>>), Join(<<Q2, Q1>>),
    Join(<<<<>>, Q1, <<>>>>), <<"x">>, <<SP>>, Join(<<Q1, Q2, Q3>>) }

\* what a user may submit as answers: in order, in reverse order, the same
\* number twice, one answer, one answer over two lines, three answers, no
\* numbered line, a blank text
A1 == <<"1", ".", "a">>
A2 == <<"2", ".", SP, "b">>
SubmitTexts ==
  { Join(<<A1, A2>>), Join(<<A2, A1>>), Join(<<A1, A1>>), A1, Join(<<A1, <<"b">>>>),
    Join(<<A1, A2, A2>>), <<"b">>, <<SP>> }

\* what the completion provider may answer to the evaluation prompt here
SubmitResponses ==
  { <<BlankPiece>>,
    <<BlankPiece, Piece(Written(7), Written(7), Written(7))>>,
    <<Unscored, Piece(Written(0), NoField, Written(12)), Piece(Written(7), Written(7), Written(7))>> }

\* number of accepted submissions so far: the user messages of the chat
RECURSIVE UserMessages(_)
UserMessages(msgs) ==
  IF msgs = <<>> THEN 0
  ELSE (IF Head(msgs).role = "user" THEN 1 ELSE 0) + UserMessages(Tail(msgs))

\* a new request starts: nothing of the previous one is in flight
RequestStarts ==
  /\ ePc' = "idle"
  /\ ePairs' = [isNull |-> FALSE, length |-> 0]
  /\ eI' = 0
  /\ eCalls' = 0
  /\ eDelays' = <<>>
  /\ eOutcomes' = <<>>
  /\ eResult' = <<>>

\* what generateInterviewQuestions did for the request: the completion calls
\* it issued, whether it threw, the text it returned
Generation(calls, thrown, text) == [calls |-> calls, thrown |-> thrown, text |-> text]
NoGeneration == Generation(0, FALSE, <<>>)

\* variant: the job description is not asked for
DocumentsUploaded_ResumeOnly(documents) == "resume" \in documents

\* lines 66-78: !resumeDoc || !jdDoc is false
DocumentsUploaded(documents) == {"resume", "jd"} \subseteq documents

\* variant: the message is pushed behind the messages of the session
StoreQuestions_Appended(c, questionsText) ==
  [c EXCEPT !.messages = Append(c.messages, PlainMessage("assistant", TextContent(Trim(questionsText))))]

\* lines 121-127: chat.messages = [{role: 'assistant', content: questionsText.trim()}]
StoreQuestions(c, questionsText) ==
  [c EXCEPT !.messages = <<PlainMessage("assistant", TextContent(Trim(questionsText)))>>]

\* generateQuestions, lines 58-146.  generateInterviewQuestions makes one to
\* MAX_RETRIES completion calls and either throws (provider error after
\* retries: <<>> below, or a blank text) or returns the provider's text
\* trimmed.
generateQuestions ==
  /\ sPc = "idle"
  /\ \/ /\ \E user \in Users, sessionId \in SessionIds : ~ChatFound(user, sessionId)
        /\ req' = Request("generateQuestions", FALSE, <<>>)
        /\ res' = Response("generateQuestions", 404, "Session not found")
        /\ gen' = NoGeneration
        /\ UNCHANGED chat
     \/ /\ ~DocumentsUploaded(docs)
        /\ req' = Request("generateQuestions", TRUE, <<>>)
        /\ res' = Response("generateQuestions", 400, "Please upload both resume and job description first")
        /\ gen' = NoGeneration
        /\ UNCHANGED chat
     \/ /\ DocumentsUploaded(docs)
        /\ req' = Request("generateQuestions", TRUE, <<>>)
        /\ \E calls \in 1..MAX_RETRIES, raw \in GeneratedTexts \cup {<<>>} :
             LET thrown == Trim(raw) = <<>>
                 questionsText == IF thrown THEN <<>> ELSE Trim(raw)
             IN  /\ gen' = Generation(calls, thrown, questionsText)
                 /\ IF thrown \/ Trim(questionsText) = <<>>
                    THEN /\ res' = Response("generateQuestions", 500, "Failed to generate questions")
                         /\ UNCHANGED chat
                    ELSE /\ chat' = StoreQuestions(chat, questionsText)
                         /\ res' = Response("generateQuestions", 200, "Questions generated successfully")
  /\ RequestStarts
  /\ sReq' = NoRequest
  /\ sPairs' = <<>>
  /\ embedCalls' = 0
  /\ UNCHANGED <<docs, sPc, parserVars, utilVars>>

\* chat.messages[0]?.content || ''
QuestionsTextOf(c) == IF c.messages = <<>> THEN <<>> ELSE c.messages[1].content.text

\* variant: as many answers are expected as the session was configured for
ExpectedAnswers_TotalQuestions(c, questions) == c.totalQuestions

\* line 218: parseAnswers(answersText, questions.length)
ExpectedAnswers(c, questions) == Len(questions)

\* submitAnswers, lines 187-245: the checks up to the call of generateEmbedding
SubmitBegin ==
  /\ sPc = "idle"
  /\ UserMessages(chat.messages) < MaxSubmits
  /\ \E found \in { ChatFound(user, chatId) : user \in Users, chatId \in SessionIds },
        answersText \in SubmitTexts :
       LET questions == parseQuestions(QuestionsTextOf(chat))
           answers == parseAnswers(answersText, ExpectedAnswers(chat, questions))
           reject(status, message) ==
             /\ res' = Response("submitAnswers", status, message)
             /\ sReq' = NoRequest
             /\ UNCHANGED sPc
       IN  /\ req' = Request("submitAnswers", found, answersText)
           /\ IF Trim(answersText) = <<>>
                THEN reject(400, "Answers are required")
              ELSE IF ~found
                THEN reject(404, "Chat session not found")
              ELSE IF Len(questions) = 0
                THEN reject(400, "No questions found in session")
              ELSE IF answers.isNull
                THEN reject(400, "Please provide exactly N answers")
              ELSE IF "resume" \notin docs
                THEN reject(400, "Resume not found for this session")
              ELSE /\ sPc' = "embedding"
                   /\ sReq' = [answersText |-> answersText, questions |-> questions,
                               answers |-> answers.answers]
                   /\ res' = NoResponse
  /\ RequestStarts
  /\ sPairs' = <<>>
  /\ embedCalls' = 0
  /\ gen' = NoGeneration
  /\ UNCHANGED <<chat, docs, parserVars, utilVars>>

\* questions.map((q, idx) => ({question: q.text, answer: answers[idx]?.text || ''}))
QuestionsAndAnswers(questions, answers) ==
  [idx \in 1..Len(questions) |->
     [question |-> questions[idx].text,
      answer |-> IF idx <= Len(answers) THEN answers[idx].text ELSE <<>>]]

\* lines 245-260: generateEmbedding resolves or throws (caught: 500); on
\* success the top chunks are looked up, the pairs built and
\* evaluateAllAnswers entered
SubmitEmbedding ==
  /\ sPc = "embedding"
  /\ embedCalls' = embedCalls + 1
  /\ \E embedded \in BOOLEAN :
       IF embedded
       THEN LET pairs == QuestionsAndAnswers(sReq.questions, sReq.answers)
            IN  /\ sPairs' = pairs
                /\ EvalEnter([isNull |-> FALSE, length |-> Len(pairs)])
                /\ sPc' = "evaluating"
                /\ UNCHANGED res
       ELSE /\ res' = Response("submitAnswers", 500, "Error processing answers")
            /\ sPc' = "idle"
            /\ UNCHANGED <<sPairs, evalVars>>
  /\ UNCHANGED <<chat, docs, sReq, gen, req, parserVars, utilVars>>

\* evaluateAllAnswers at work for the request in flight
SubmitEvaluating ==
  /\ sPc = "evaluating"
  /\ EvalCallFails \/ EvalCallAnswers(SubmitResponses) \/ EvalWake
  /\ UNCHANGED <<ctrlVars, parserVars, utilVars>>

\* variant: the labels count from 0
PushEvaluations_ZeroBased(msgs, evaluations) ==
  msgs \o [idx \in 1..Len(evaluations) |-> FeedbackMessage(idx - 1, evaluations[idx])]

\* evaluations.forEach pushes one message per evaluation
PushEvaluations(msgs, evaluations) ==
  msgs \o [idx \in 1..Len(evaluations) |-> FeedbackMessage(idx, evaluations[idx])]

\* lines 262-300: evaluateAllAnswers resolved; messages pushed, session
\* completed, final scores computed, chat saved
SubmitFinish ==
  /\ sPc = "evaluating"
  /\ ePc = "resolved"
  /\ LET withAnswers == Append(chat.messages, PlainMessage("user", TextContent(sReq.answersText)))
         withFeedback == PushEvaluations(withAnswers, eResult)
     IN  chat' = calculateFinalScores([chat EXCEPT !.messages = withFeedback, !.isCompleted = TRUE])
  /\ res' = Response("submitAnswers", 200, "evaluations")
  /\ sPc' = "idle"
  /\ UNCHANGED <<docs, sReq, sPairs, embedCalls, gen, req, evalVars, parserVars, utilVars>>

CtrlIdle ==
  /\ chat = [messages |-> <<>>, isCompleted |-> FALSE, totalQuestions |-> 3,
             finalScore |-> 0, averageRelevance |-> 0, averageCorrectness |-> 0]
  /\ sPc = "idle"
  /\ sReq = NoRequest
  /\ sPairs = <<>>
  /\ embedCalls = 0
  /\ gen = NoGeneration
  /\ req = Request("none", FALSE, <<>>)
  /\ res = NoResponse

\* ==================================================== documentController.js
\* The Document collection: a set of documents, each with its _id (the
\* number of documents created up to and including it).  Requests are served by processes; a process holds the
\* request it serves, its position in uploadForSession and its existingDoc.
Procs == {"p1", "p2"}
DocTypes == {"resume", "jd"}
Document(id, userId, sessionId, type) ==
  [id |-> id, userId |-> userId, sessionId |-> sessionId, type |-> type]

\* the sessions stored: Chat.findOne({ _id: sessionId, userId })
SessionFound(userId, sessionId) ==
  \/ userId = "u1" /\ sessionId = "s1"
  \/ userId = "u2" /\ sessionId = "s2"

\* Document.findOne({ userId, sessionId, type }) yields one of Matching, or
\* null when there is none
Matching(documents, userId, sessionId, type) ==
  { d \in documents : d.userId = userId /\ d.sessionId = sessionId /\ d.type = type }

\* variant: nothing is deleted
DeleteOne_Kept(documents, id) == documents

\* Document.deleteOne({ _id: id })
DeleteOne(documents, id) == { d \in documents : d.id # id }

\* req.user._id, req.body.sessionId (or ""), req.body.type, req.file (or none)
UploadRequest(userId, sessionId, type, file) ==
  [userId |-> userId, sessionId |-> sessionId, type |-> type, file |-> file]
NoUpload == UploadRequest("", "", "", FALSE)

\* the response of uploadForSession to request r; id is the _id of the
\* document created, replaced the _id of the existingDoc deleted
UploadResponse(r, status, id, replaced) ==
  [req |-> r, status |-> status, id |-> id, replaced |-> replaced]
NoUploadResponse == UploadResponse(NoUpload, 0, 0, 0)

UploadIdle ==
  /\ store = {}
  /\ uPc = [p \in Procs |-> "idle"]
  /\ uReq = [p \in Procs |-> NoUpload]
  /\ uExisting = [p \in Procs |-> 0]
  /\ uCount = 0
  /\ uCreated = 0
  /\ uLast = NoUploadResponse

\* process p answers its request and is free again
Respond(p, status, id) ==
  /\ uLast' = UploadResponse(uReq[p], status, id, uExisting[p])
  /\ uPc' = [uPc EXCEPT ![p] = "idle"]
  /\ uReq' = [uReq EXCEPT ![p] = NoUpload]
  /\ uExisting' = [uExisting EXCEPT ![p] = 0]

\* entry of uploadForSession with request r: the checks of type, sessionId
\* and file, then the lookup of the session
UploadBegin(p, r) ==
  /\ uPc[p] = "idle"
  /\ uCount' = uCount + 1
  /\ IF r.type \notin DocTypes \/ r.sessionId = "" \/ ~r.file
     THEN /\ uLast' = UploadResponse(r, 400, 0, 0)
          /\ UNCHANGED <<uPc, uReq>>
     ELSE IF ~SessionFound(r.userId, r.sessionId)
     THEN /\ uLast' = UploadResponse(r, 404, 0, 0)
          /\ UNCHANGED <<uPc, uReq>>
     ELSE /\ uPc' = [uPc EXCEPT ![p] = "find"]
          /\ uReq' = [uReq EXCEPT ![p] = r]
          /\ UNCHANGED uLast
  /\ UNCHANGED <<store, uExisting, uCreated>>

\* const existingDoc = await Document.findOne(...)
UploadFind(p) ==
  /\ uPc[p] = "find"
  /\ LET found == Matching(store, uReq[p].userId, uReq[p].sessionId, uReq[p].type)
     IN  IF found = {}
         THEN /\ uPc' = [uPc EXCEPT ![p] = "upload"]
              /\ UNCHANGED uExisting
         ELSE /\ uPc' = [uPc EXCEPT ![p] = "delete"]
              /\ \E d \in found : uExisting' = [uExisting EXCEPT ![p] = d.id]
  /\ UNCHANGED <<store, uReq, uCount, uCreated, uLast>>

\* the old file is destroyed in object storage (an error there is only
\* logged), then the old document is deleted
UploadDelete(p) ==
  /\ uPc[p] = "delete"
  /\ store' = DeleteOne(store, uExisting[p])
  /\ uPc' = [uPc EXCEPT ![p] = "upload"]
  /\ UNCHANGED <<uReq, uExisting, uCount, uCreated, uLast>>

\* the awaited steps between the deletion and Document.create: the upload to
\* object storage, the text extraction with its two checks (400), and
\* generateEmbeddings; an error thrown by any of them ends in the catch (500)
UploadProcess(p) ==
  /\ uPc[p] = "upload"
  /\ \E status \in {0, 400, 500} :
       IF status = 0
       THEN /\ uPc' = [uPc EXCEPT ![p] = "create"]
            /\ UNCHANGED <<uReq, uExisting, uLast>>
       ELSE Respond(p, status, 0)
  /\ UNCHANGED <<store, uCount, uCreated>>

\* const document = await Document.create(...), then 201
UploadCreate(p) ==
  /\ uPc[p] = "create"
  /\ uCreated' = uCreated + 1
  /\ store' = store \cup
       {Document(uCreated + 1, uReq[p].userId, uReq[p].sessionId, uReq[p].type)}
  /\ Respond(p, 201, uCreated + 1)
  /\ UNCHANGED uCount

\* uploadDocument, lines 50-164: the upload without a session.  Its request
\* carries no sessionId ("" here), and the Document it creates has none.
\* Document.findOne({ userId, type }) yields one of MatchingUserType, whatever
\* the sessionId of the Document
MatchingUserType(documents, userId, type) ==
  { d \in documents : d.userId = userId /\ d.type = type }

\* entry of uploadDocument with request r: the checks of type and file
DocumentBegin(p, r) ==
  /\ uPc[p] = "idle"
  /\ uCount' = uCount + 1
  /\ IF r.type \notin DocTypes \/ ~r.file
     THEN /\ uLast' = UploadResponse(r, 400, 0, 0)
          /\ UNCHANGED <<uPc, uReq>>
     ELSE /\ uPc' = [uPc EXCEPT ![p] = "findAny"]
          /\ uReq' = [uReq EXCEPT ![p] = r]
          /\ UNCHANGED uLast
  /\ UNCHANGED <<store, uExisting, uCreated>>

\* const existingDoc = await Document.findOne({ userId, type }); from here on
\* uploadDocument goes the way of uploadForSession: delete the Document
\* found, upload, extract, embed, create
DocumentFind(p) ==
  /\ uPc[p] = "findAny"
  /\ LET found == MatchingUserType(store, uReq[p].userId, uReq[p].type)
     IN  IF found = {}
         THEN /\ uPc' = [uPc EXCEPT ![p] = "upload"]
              /\ UNCHANGED uExisting
         ELSE /\ uPc' = [uPc EXCEPT ![p] = "delete"]
              /\ \E d \in found : uExisting' = [uExisting EXCEPT ![p] = d.id]
  /\ UNCHANGED <<store, uReq, uCount, uCreated, uLast>>

UtilIdle == SearchIdle /\ ProviderIdle /\ UploadIdle

\* =========================================================== parser harness
\* The lines the harness feeds to the parsers: an optional leading blank, a
\* numeral or none, an optional period, and a body (none, "a", or "b" after
\* a blank); besides these a two-digit numeral and a period followed by a
\* blank only.
LineLead == {<<>>, <<SP>>}
LineNumeral == {<<>>, <<"1">>, <<"2">>}
LinePeriod == {<<>>, <<".">>}
LineBody == {<<>>, <<"a">>, <<SP, "b">>}

Lines ==
  { l \o n \o p \o b : l \in LineLead, n \in LineNumeral, p \in LinePeriod, b \in LineBody }
    \cup { <<"1", "2", ".", "a">>, <<"1", ".", SP>> }

NullAnswers == [isNull |-> TRUE, answers |-> <<>>]

ParserIdle ==
  /\ pCall = "none"
  /\ pExpected = 0
  /\ pQuestions = <<>>
  /\ pAnswers = NullAnswers

ParserInit ==
  /\ pText \in Lines
  /\ ParserIdle
  /\ EvalIdle
  /\ CtrlIdle
  /\ docs = {}
  /\ UtilIdle

\* the caller extends the text with one more line
AppendLine ==
  /\ pCall = "none"
  /\ Len(Split(pText)) < MaxLines
  /\ \E l \in Lines : pText' = pText \o <<NL>> \o l
  /\ UNCHANGED <<pCall, pExpected, pQuestions, pAnswers, evalVars, ctrlVars, utilVars>>

CallParseQuestions ==
  /\ pCall = "none"
  /\ pCall' = "parseQuestions"
  /\ pQuestions' = parseQuestions(pText)
  /\ UNCHANGED <<pText, pExpected, pAnswers, evalVars, ctrlVars, utilVars>>

CallParseAnswers ==
  /\ pCall = "none"
  /\ pCall' = "parseAnswers"
  /\ \E n \in 0..(MaxLines + 1) :
       /\ pExpected' = n
       /\ pAnswers' = parseAnswers(pText, n)
  /\ UNCHANGED <<pText, pQuestions, evalVars, ctrlVars, utilVars>>

ParserNext == AppendLine \/ CallParseQuestions \/ CallParseAnswers

SpecParser == ParserInit /\ [][ParserNext]_vars

\* ======================================================== evaluator harness
EvalInit ==
  /\ pText = <<>>
  /\ ParserIdle
  /\ EvalIdle
  /\ CtrlIdle
  /\ docs = {}
  /\ UtilIdle

EvalStep ==
  \/ EvalStart /\ UNCHANGED <<parserVars, ctrlVars, utilVars>>
  \/ EvalCallFails /\ UNCHANGED <<parserVars, ctrlVars, utilVars>>
  \/ EvalCallAnswers(Responses) /\ UNCHANGED <<parserVars, ctrlVars, utilVars>>
  \/ EvalWake /\ UNCHANGED <<parserVars, ctrlVars, utilVars>>

SpecEval == EvalInit /\ [][EvalStep]_vars

\* =================================================== vector search harness
\* Query vectors and stored embeddings: one- and two-dimensional vectors over
\* -1, 0, 1, a vector with a NaN entry, and none.  On these vectors the order
\* of the similarities as reals is the order of the doubles computed.
Queries ==
  {NoVector, Vector(<<1>>), Vector(<<1, 0>>), Vector(<<1, 1>>), Vector(<<0, 0>>)}
Embeddings ==
  {NoVector, Vector(<<1>>), Vector(<<1, 0>>), Vector(<<0, 1>>), Vector(<<1, 1>>),
   Vector(<<-1, -1>>), Vector(<<0, 0>>), NaNVector(<<0, 0>>)}

SearchInit ==
  /\ pText = <<>>
  /\ ParserIdle
  /\ EvalIdle
  /\ CtrlIdle
  /\ docs = {}
  /\ vQuery \in Queries
  /\ vChunks \in {NoChunks, Chunks(<<>>)}
  /\ vCall = "none"
  /\ vArg = 0
  /\ vSim = Zero
  /\ vFound = <<>>
  /\ ProviderIdle
  /\ UploadIdle

\* the caller extends the chunk list by one chunk
AddChunk ==
  /\ vCall = "none"
  /\ ~vChunks.missing
  /\ Len(vChunks.items) < MaxChunks
  /\ \E e \in Embeddings : vChunks' = Chunks(Append(vChunks.items, Chunk(e)))
  /\ UNCHANGED <<vQuery, vCall, vArg, vSim, vFound>>

CallCosineSimilarity ==
  /\ vCall = "none"
  /\ \E j \in 1..Len(vChunks.items) :
       /\ vArg' = j
       /\ vSim' = cosineSimilarity(vQuery, vChunks.items[j].embedding)
  /\ vCall' = "cosineSimilarity"
  /\ UNCHANGED <<vQuery, vChunks, vFound>>

CallFindSimilarChunks ==
  /\ vCall = "none"
  /\ \E topK \in 1..(MaxChunks + 1) :
       /\ vArg' = topK
       /\ vFound' = findSimilarChunks(vQuery, vChunks, topK)
  /\ vCall' = "findSimilarChunks"
  /\ UNCHANGED <<vQuery, vChunks, vSim>>

SearchNext ==
  \/ AddChunk /\ UNCHANGED <<parserVars, evalVars, ctrlVars, providerVars, storeVars>>
  \/ CallCosineSimilarity /\ UNCHANGED <<parserVars, evalVars, ctrlVars, providerVars, storeVars>>
  \/ CallFindSimilarChunks /\ UNCHANGED <<parserVars, evalVars, ctrlVars, providerVars, storeVars>>

SpecSearch == SearchInit /\ [][SearchNext]_vars

\* ======================================================== provider harness
\* budgets handed to retryWithBackoff, texts handed to the embedding and the
\* question functions, and values of numQuestions around the limits 2 and 10
Budgets == 0..MaxBudget
TextArguments == {<<>>, <<SP>>, <<"a">>, <<SP, "b">>}
ChunkTexts == {<<"a">>, <<"b">>}
TextLists == UNION { [1..k -> ChunkTexts] : k \in 0..MaxTexts }
QuestionCounts == {0, 1, 2, 3, 10, 11}

ProviderInit ==
  /\ pText = <<>>
  /\ ParserIdle
  /\ EvalIdle
  /\ CtrlIdle
  /\ docs = {}
  /\ UtilIdle

ProviderNext ==
  \/ StartRetry(Budgets) /\ UNCHANGED <<parserVars, evalVars, ctrlVars, searchVars, storeVars>>
  \/ StartEmbedding(TextArguments) /\ UNCHANGED <<parserVars, evalVars, ctrlVars, searchVars, storeVars>>
  \/ StartEmbeddings(TextLists) /\ UNCHANGED <<parserVars, evalVars, ctrlVars, searchVars, storeVars>>
  \/ StartQuestions(TextArguments, QuestionCounts)
       /\ UNCHANGED <<parserVars, evalVars, ctrlVars, searchVars, storeVars>>
  \/ ProviderIssue /\ UNCHANGED <<parserVars, evalVars, ctrlVars, searchVars, storeVars>>
  \/ ProviderAnswers /\ UNCHANGED <<parserVars, evalVars, ctrlVars, searchVars, storeVars>>
  \/ ProviderWake /\ UNCHANGED <<parserVars, evalVars, ctrlVars, searchVars, storeVars>>

SpecProvider == ProviderInit /\ [][ProviderNext]_vars

\* The steps of a call that is under way: the event loop runs the function up
\* to its next await, and every awaited provider call and every backoff timer
\* completes.
ProviderRuns ==
  /\ ProviderIssue \/ ProviderAnswers \/ ProviderWake
  /\ UNCHANGED <<parserVars, evalVars, ctrlVars, searchVars, storeVars>>

SpecProviderFair == ProviderInit /\ [][ProviderNext]_vars /\ WF_vars(ProviderRuns)

\* ========================================================== upload harness
\* uploads for the two sessions by either user, and three malformed ones
UploadRequests ==
  { UploadRequest(u, s, t, TRUE) : u \in Users, s \in SessionIds, t \in DocTypes }
    \cup { UploadRequest("u1", "s1", "cv", TRUE), UploadRequest("u1", "", "resume", TRUE),
           UploadRequest("u1", "s1", "resume", FALSE) }

UploadInit ==
  /\ pText = <<>>
  /\ ParserIdle
  /\ EvalIdle
  /\ CtrlIdle
  /\ docs = {}
  /\ UtilIdle

\* a request is taken up when no other request is being served
UploadArrives ==
  /\ uCount < MaxUploads
  /\ \A q \in Procs : uPc[q] = "idle"
  /\ \E p \in Procs : \E r \in UploadRequests : UploadBegin(p, r)

UploadNext ==
  \/ UploadArrives /\ UNCHANGED <<parserVars, evalVars, ctrlVars, searchVars, providerVars>>
  \/ (\E p \in Procs : UploadFind(p))
       /\ UNCHANGED <<parserVars, evalVars, ctrlVars, searchVars, providerVars>>
  \/ (\E p \in Procs : UploadDelete(p))
       /\ UNCHANGED <<parserVars, evalVars, ctrlVars, searchVars, providerVars>>
  \/ (\E p \in Procs : UploadProcess(p))
       /\ UNCHANGED <<parserVars, evalVars, ctrlVars, searchVars, providerVars>>
  \/ (\E p \in Procs : UploadCreate(p))
       /\ UNCHANGED <<parserVars, evalVars, ctrlVars, searchVars, providerVars>>

SpecUpload == UploadInit /\ [][UploadNext]_vars

\* a request is taken up by a free process while another request may be
\* under way: the awaited steps of the two interleave
UploadArrivesAnytime ==
  /\ uCount < MaxUploads
  /\ \E p \in Procs : \E r \in UploadRequests : UploadBegin(p, r)

InterleavedNext ==
  \/ UploadArrivesAnytime /\ UNCHANGED <<parserVars, evalVars, ctrlVars, searchVars, providerVars>>
  \/ (\E p \in Procs : UploadFind(p))
       /\ UNCHANGED <<parserVars, evalVars, ctrlVars, searchVars, providerVars>>
  \/ (\E p \in Procs : UploadDelete(p))
       /\ UNCHANGED <<parserVars, evalVars, ctrlVars, searchVars, providerVars>>
  \/ (\E p \in Procs : UploadProcess(p))
       /\ UNCHANGED <<parserVars, evalVars, ctrlVars, searchVars, providerVars>>
  \/ (\E p \in Procs : UploadCreate(p))
       /\ UNCHANGED <<parserVars, evalVars, ctrlVars, searchVars, providerVars>>

SpecInterleaved == UploadInit /\ [][InterleavedNext]_vars

\* uploads without a session by either user, and two malformed ones
DocumentRequests ==
  { UploadRequest(u, "", t, TRUE) : u \in Users, t \in DocTypes }
    \cup { UploadRequest("u1", "", "cv", TRUE), UploadRequest("u1", "", "resume", FALSE) }

DocumentArrives ==
  /\ uCount < MaxUploads
  /\ \A q \in Procs : uPc[q] = "idle"
  /\ \E p \in Procs : \E r \in DocumentRequests : DocumentBegin(p, r)

\* requests of both upload routes, served one after another
DocumentsNext ==
  \/ UploadNext
  \/ DocumentArrives /\ UNCHANGED <<parserVars, evalVars, ctrlVars, searchVars, providerVars>>
  \/ (\E p \in Procs : DocumentFind(p))
       /\ UNCHANGED <<parserVars, evalVars, ctrlVars, searchVars, providerVars>>

SpecDocuments == UploadInit /\ [][DocumentsNext]_vars

\* ====================================================== request sequences
Init ==
  /\ pText = <<>>
  /\ ParserIdle
  /\ EvalIdle
  /\ CtrlIdle
  /\ docs \in SUBSET {"resume", "jd"}
  /\ UtilIdle

Next ==
  \/ generateQuestions
  \/ SubmitBegin
  \/ SubmitEmbedding
  \/ SubmitEvaluating
  \/ SubmitFinish

Spec == Init /\ [][Next]_vars

\* ------------------------------------------------------ parser properties
IsSubstring(sub, s) ==
  \E i \in 0..(Len(s) - Len(sub)) : SubSeq(s, i + 1, i + Len(sub)) = sub

\* the lines of the submitted text as the user wrote them, blank ones dropped
AnswerLines == FilterNonBlank(MapTrim(Split(pText)))
\* positions of the lines that open a numbered answer
AnswerMarkers == { k \in 1..Len(AnswerLines) : LineMatches(AnswerLines[k]) }
\* the numerals the user wrote, as a set
WrittenNumbers == { MatchNumber(AnswerLines[k]) : k \in AnswerMarkers }
\* which answer (1-based) the line at position k belongs to
AnswerOf(k) == Cardinality({ j \in AnswerMarkers : j <= k })

ParsedAnswers == pCall = "parseAnswers" /\ ~pAnswers.isNull

\* C4: parseAnswers(text, N) returns null or a list of exactly N answers.
C4_ExactCountOrNull ==
  pCall = "parseAnswers" => (pAnswers.isNull \/ Len(pAnswers.answers) = pExpected)

C4_Witness ==
  /\ ParsedAnswers
  /\ pExpected = 2
  /\ Len(pAnswers.answers) = 2

\* C6 (as claimed): a batch whose written numbers are not exactly 1..N, without
\* gap or duplicate, makes parseAnswers return null.
C6_NonDenseBatchIsNull ==
  (pCall = "parseAnswers"
     /\ ~(Cardinality(AnswerMarkers) = pExpected /\ WrittenNumbers = 1..pExpected))
    => pAnswers.isNull

\* C7 (as claimed): every line of a multi-line answer body, up to the next
\* marker, is part of the text of the returned answer.
C7_BodyKeepsAllLines ==
  ParsedAnswers =>
    \A k \in 1..Len(AnswerLines) :
      (k \notin AnswerMarkers /\ AnswerOf(k) >= 1)
        => IsSubstring(AnswerLines[k], pAnswers.answers[AnswerOf(k)].text)

QuestionLines == Split(pText)
QuestionMarkers == { k \in 1..Len(QuestionLines) : LineMatches(QuestionLines[k]) }
QuestionOf(k) == Cardinality({ j \in QuestionMarkers : j <= k })

\* C10: parseQuestions returns one entry per matching line, in line order,
\* with that line's leading numeral and trimmed content; other lines give no
\* entry and the result is empty when no line matches.
C10_EntriesFollowLines ==
  pCall = "parseQuestions" =>
    /\ Len(pQuestions) = Cardinality(QuestionMarkers)
    /\ \A k \in QuestionMarkers :
         /\ pQuestions[QuestionOf(k)].number = MatchNumber(QuestionLines[k])
         /\ pQuestions[QuestionOf(k)].text = Trim(Rest(QuestionLines[k]))

C10_Witness ==
  /\ pCall = "parseQuestions"
  /\ Len(QuestionLines) = 2
  /\ QuestionMarkers = {2}
  /\ pQuestions = <<[number |-> 12, text |-> <<"a">>]>>

\* --------------------------------------------------- evaluator properties
PairsGiven == ~ePairs.isNull /\ ePairs.length >= 1
LastOutcome == eOutcomes[Len(eOutcomes)]
CallFailed(o) == o.kind \in {"transient", "permanent"} \/ IsBlankText(o.text)
AllCallsFailed == \A k \in 1..Len(eOutcomes) : CallFailed(eOutcomes[k])

C2_TotalFailureGivesNeutralScores ==
  (ePc \in {"resolved", "rejected"} /\ ~ePairs.isNull /\ AllCallsFailed) =>
    /\ ePc = "resolved"
    /\ Len(eResult) = ePairs.length
    /\ \A i \in 1..Len(eResult) :
         /\ eResult[i].score = 5
         /\ eResult[i].relevanceScore = 5
         /\ eResult[i].correctnessScore = 5

C2_Witness ==
  /\ ePc = "resolved"
  /\ ePairs.length = 2
  /\ eCalls = MAX_RETRIES
  /\ \A k \in 1..Len(eOutcomes) : eOutcomes[k].kind = "transient"
  /\ Len(eResult) = 2
  /\ eResult[2].score = 5

\* C3: every evaluation returned has its three scores in 1..10, whatever
\* numbers the response holds.
C3_ScoresWithinRange ==
  \A i \in 1..Len(eResult) :
    /\ eResult[i].score \in 1..10
    /\ eResult[i].relevanceScore \in 1..10
    /\ eResult[i].correctnessScore \in 1..10

C3_Witness ==
  /\ ePc = "resolved"
  /\ eCalls >= 1
  /\ LastOutcome.kind = "text"
  /\ \E k \in 1..Len(LastOutcome.text) :
       /\ LastOutcome.text[k].relevance = Written(0)
       /\ LastOutcome.text[k].overall = Written(12)
  /\ \E i \in 1..Len(eResult) : eResult[i].relevanceScore = 1 /\ eResult[i].score = 10

\* the call resolved from a model response that was parsed
ParsedResponse == ePc = "resolved" /\ PairsGiven /\ eCalls >= 1 /\ ~CallFailed(LastOutcome)
\* the blocks of that response that are given an evaluation
ParsedBlocks == QuestionBlocks(LastOutcome.text)
EvaluatedBlocks == 1..Min(Len(ParsedBlocks), ePairs.length)
\* a written score as returned: limited to 1..10
Returned1To10(v) == IF v < 1 THEN 1 ELSE IF v > 10 THEN 10 ELSE v

\* C20: a block without a Relevance (Correctness) field gets relevanceScore
\* (correctnessScore) 5; every block that has the field gets the score written
\* in it, whatever the other blocks lack; and the batch is evaluated from the
\* response, not replaced by the fallback.
C20_MissingFieldDefaultsToFive ==
  ParsedResponse
    => /\ Len(eResult) = ePairs.length
       /\ \A i \in EvaluatedBlocks :
            /\ eResult[i].feedback = "block"
            /\ eResult[i].relevanceScore =
                 IF ParsedBlocks[i].relevance.present
                 THEN Returned1To10(ParsedBlocks[i].relevance.value) ELSE 5
            /\ eResult[i].correctnessScore =
                 IF ParsedBlocks[i].correctness.present
                 THEN Returned1To10(ParsedBlocks[i].correctness.value) ELSE 5

C20_Witness ==
  /\ ParsedResponse
  /\ ePairs.length = 2
  /\ Len(ParsedBlocks) = 2
  /\ ~ParsedBlocks[1].relevance.present
  /\ ParsedBlocks[1].correctness.present
  /\ ParsedBlocks[2].relevance.present
  /\ eResult[1].relevanceScore = 5
  /\ eResult[2].relevanceScore = 7

\* blocks of the parsed response that carry no Overall field
WithoutOverall == { i \in EvaluatedBlocks : ~ParsedBlocks[i].overall.present }
\* the relevance and correctness of block i as read from the text, 5 for a
\* missing one, before they are limited to 1..10
ReadRelevance(i) ==
  IF ParsedBlocks[i].relevance.present THEN ParsedBlocks[i].relevance.value ELSE 5
ReadCorrectness(i) ==
  IF ParsedBlocks[i].correctness.present THEN ParsedBlocks[i].correctness.value ELSE 5
\* Math.round of half of x, x >= 0: halves are rounded up
HalfRounded(x) == IF x % 2 = 0 THEN x \div 2 ELSE (x \div 2) + 1

\* C21 as stated: without an Overall field, score is the rounded average of
\* the returned relevanceScore and correctnessScore.
C21_OverallIsAverageOfReturned ==
  ParsedResponse
    => \A i \in WithoutOverall :
         eResult[i].score
           = HalfRounded(eResult[i].relevanceScore + eResult[i].correctnessScore)

\* C21 amended: without an Overall field, score is the rounded average of the
\* relevance and correctness as read from the block (5 for a missing one),
\* limited to 1..10 afterwards; it is the rounded average of the returned
\* scores when both values read lie within 1..10.
C21_OverallIsAverageOfRead ==
  ParsedResponse
    => \A i \in WithoutOverall :
         /\ eResult[i].score = Returned1To10(HalfRounded(ReadRelevance(i) + ReadCorrectness(i)))
         /\ (ReadRelevance(i) \in 1..10 /\ ReadCorrectness(i) \in 1..10)
              => eResult[i].score
                   = HalfRounded(eResult[i].relevanceScore + eResult[i].correctnessScore)

C21_Witness ==
  /\ ParsedResponse
  /\ \E i \in WithoutOverall :
       /\ ReadRelevance(i) > 10
       /\ ReadCorrectness(i) \in 1..10
       /\ eResult[i].score = 10
       /\ eResult[i].relevanceScore = 10
       /\ eResult[i].correctnessScore = 7

\* C22: with m parsed blocks for n pairs, m < n gives the m parsed
\* evaluations in order followed by n - m evaluations with every score 5;
\* m > n gives the first n parsed evaluations.
C22_PadOrTruncate ==
  ParsedResponse
    => LET m == Len(ParsedBlocks)
           n == ePairs.length
       IN  /\ Len(eResult) = n
           /\ \A i \in 1..n :
                IF i <= m
                THEN eResult[i] = EvaluateBlock(ParsedBlocks[i])
                ELSE /\ eResult[i].score = 5
                     /\ eResult[i].relevanceScore = 5
                     /\ eResult[i].correctnessScore = 5
                     /\ eResult[i].feedback = "padded"

C22_Witness ==
  /\ ParsedResponse
  /\ Len(ParsedBlocks) = 1
  /\ ePairs.length = 2
  /\ eResult[1].relevanceScore = 7
  /\ eResult[2] = PaddedEvaluation

\* the call of evaluateAllAnswers is over, for a non-empty list of pairs
EvaluationOver == ePc = "resolved" /\ PairsGiven

\* C23 as stated: one evaluateAllAnswers call makes exactly one completion
\* call, whatever the number of pairs.
C23_ExactlyOneCompletionCall == EvaluationOver => eCalls = 1

\* C23 amended: every completion call is for the whole batch, so their number
\* does not depend on the number of pairs: it is one plus the number of
\* transient failures that were retried, at least 1 and at most MAX_RETRIES,
\* and exactly one when the first call does not fail transiently.
C23_OneCallPerAttempt ==
  EvaluationOver
    => /\ eCalls = Len(eOutcomes)
       /\ eCalls \in 1..MAX_RETRIES
       /\ \A k \in 1..(eCalls - 1) : eOutcomes[k].kind = "transient"
       /\ eOutcomes[1].kind # "transient" => eCalls = 1

C23_Witness ==
  /\ EvaluationOver
  /\ ePairs.length = 2
  /\ eCalls = 2
  /\ eOutcomes[1].kind = "transient"
  /\ eOutcomes[2].kind = "text"
  /\ eResult[1].feedback = "block"

\* the pieces of the response that follow a 'Question n:' delimiter
DelimitedBlocks == Tail(LastOutcome.text)
\* a response of optional introductory text and one non-blank block per pair
OneBlockPerPair ==
  /\ ParsedResponse
  /\ Len(DelimitedBlocks) = ePairs.length
  /\ \A j \in 1..Len(DelimitedBlocks) : ~DelimitedBlocks[j].blank

\* C34: for such a response the i-th evaluation carries the scores written in
\* the i-th delimited block, whether or not text stands before the first
\* delimiter.
C34_IntroDoesNotShiftBlocks ==
  OneBlockPerPair
    => \A i \in 1..ePairs.length :
         /\ DelimitedBlocks[i].relevance.present
              => eResult[i].relevanceScore = Returned1To10(DelimitedBlocks[i].relevance.value)
         /\ DelimitedBlocks[i].correctness.present
              => eResult[i].correctnessScore = Returned1To10(DelimitedBlocks[i].correctness.value)
         /\ DelimitedBlocks[i].overall.present
              => eResult[i].score = Returned1To10(DelimitedBlocks[i].overall.value)

\* C37: evaluateAllAnswers never rejects, whatever its arguments; called with
\* an empty, null or undefined list of pairs it resolves to an empty list.
C37_NeverRejects ==
  /\ ePc # "rejected"
  /\ (ePc = "resolved" /\ ~PairsGiven) => eResult = <<>>

\* ---------------------------------------------------- request properties
\* number of numbered answers the submitted text holds
RecoveredCount(text) ==
  LET ls == FilterNonBlank(MapTrim(Split(text)))
  IN  Cardinality({ k \in 1..Len(ls) : LineMatches(ls[k]) })

QuestionCount(c) == Len(parseQuestions(QuestionsTextOf(c)))

\* a submitAnswers request arrives for a session that exists, with a number
\* of answers other than the number of questions of the session
MismatchArrives ==
  /\ sPc = "idle"
  /\ req'.handler = "submitAnswers"
  /\ req'.found
  /\ RecoveredCount(req'.answersText) # QuestionCount(chat)

\* C5: such a submission is answered 400 at once, without any embedding or
\* completion call, and the stored chat (messages, isCompleted) is untouched.
C5_MismatchRejected ==
  [][MismatchArrives =>
       /\ res'.handler = "submitAnswers"
       /\ res'.status = 400
       /\ sPc' = "idle"
       /\ embedCalls' = 0
       /\ eCalls' = 0
       /\ chat' = chat]_vars

C5_Witness ==
  /\ req = Request("submitAnswers", TRUE, Join(<<A1, A2, A2>>))
  /\ QuestionCount(chat) = 2
  /\ chat.isCompleted
  /\ res.status = 400
  /\ sPc = "idle"

\* C9 (as claimed): the pair built for the question numbered n carries the
\* answer numbered n.
C9_PairsAlignedByNumber ==
  sPc = "evaluating" =>
    \A i \in 1..Len(sPairs), j \in 1..Len(sReq.answers) :
      sReq.answers[j].number = sReq.questions[i].number
        => sPairs[i].answer = sReq.answers[j].text

\* the evaluation messages of the session and the scores computed from them
Evaluations(c) ==
  [messages |-> ScoredMessages(c.messages), finalScore |-> c.finalScore,
   averageRelevance |-> c.averageRelevance, averageCorrectness |-> c.averageCorrectness]

\* C18: once the session is completed, no request adds, removes or changes
\* its evaluation messages and scores.
C18_EvaluationsImmutable ==
  [][chat.isCompleted => Evaluations(chat') = Evaluations(chat)]_vars

\* the request passed every check of submitAnswers (right count of answers,
\* resume present) and awaits generateEmbedding
BatchAccepted == sPc = "embedding"

\* C24: a well-formed batch completes the session although the provider
\* fails: the step that ends the wait for generateEmbedding either goes on to
\* the evaluation or answers 200 with the session completed.
C24_OutageStillCompletes ==
  [][(BatchAccepted /\ sPc' # "evaluating")
       => (res'.status = 200 /\ chat'.isCompleted)]_vars

\* a generateQuestions request arrives
QuestionsRequested == sPc = "idle" /\ req'.handler = "generateQuestions"
BothDocuments == "resume" \in docs /\ "jd" \in docs

\* C28: generateQuestions makes a completion call or touches the session only
\* when the session is found for the user and a resume and a jd Document
\* exist; a session not found is answered 404 and a missing Document 400,
\* both without any provider call and with the chat as it was.
C28_CallOnlyWithBothDocuments ==
  [][QuestionsRequested =>
       /\ (gen'.calls > 0 \/ chat' # chat \/ res'.status = 200) => (req'.found /\ BothDocuments)
       /\ ~req'.found
            => (res'.status = 404 /\ gen'.calls = 0 /\ embedCalls' = 0 /\ chat' = chat)
       /\ (req'.found /\ ~BothDocuments)
            => (res'.status = 400 /\ gen'.calls = 0 /\ embedCalls' = 0 /\ chat' = chat)]_vars

C28_Witness ==
  /\ req = Request("generateQuestions", TRUE, <<>>)
  /\ docs = {"resume"}
  /\ res = Response("generateQuestions", 400, "Please upload both resume and job description first")
  /\ gen = NoGeneration
  /\ chat.messages = <<>>

\* C29: when generateInterviewQuestions throws or returns a blank text the
\* response is not a success and the messages are those of before; a
\* response other than 200 never comes with changed messages; with 200 the
\* messages are exactly one assistant message holding the generated text,
\* trimmed.
C29_FailureLeavesMessages ==
  [][QuestionsRequested =>
       /\ (gen'.calls > 0 /\ (gen'.thrown \/ Trim(gen'.text) = <<>>)) => res'.status # 200
       /\ res'.status # 200 => chat'.messages = chat.messages
       /\ res'.status = 200
            => /\ ~gen'.thrown
               /\ chat'.messages = <<PlainMessage("assistant", TextContent(Trim(gen'.text)))>>]_vars

C29_Witness ==
  /\ req = Request("generateQuestions", TRUE, <<>>)
  /\ res.status = 500
  /\ gen.calls = MAX_RETRIES
  /\ gen.thrown
  /\ Len(chat.messages) > 1
  /\ chat.messages[1] = PlainMessage("assistant", TextContent(Join(<<Q1, Q2>>)))

\* submitAnswers ends with a success
SubmitSucceeds == sPc = "evaluating" /\ sPc' = "idle" /\ res'.status = 200

\* C30: a successful submitAnswers on a session with N parsed questions keeps
\* the messages it found and adds one user message with the submitted text
\* and then N scored assistant messages, the i-th labelled question i and
\* carrying the i-th evaluation's scores and feedback; isCompleted is true.
C30_MessagesGained ==
  [][SubmitSucceeds =>
       LET before == Len(chat.messages)
           N == QuestionCount(chat)
       IN  /\ Len(chat'.messages) = before + 1 + N
           /\ SubSeq(chat'.messages, 1, before) = chat.messages
           /\ chat'.messages[before + 1] = PlainMessage("user", TextContent(req.answersText))
           /\ Len(eResult) = N
           /\ \A i \in 1..N :
                LET m == chat'.messages[before + 1 + i]
                IN  /\ m.role = "assistant"
                    /\ m.scored
                    /\ m.content = FeedbackContent(i, eResult[i].feedback)
                    /\ m.score = eResult[i].score
                    /\ m.relevanceScore = eResult[i].relevanceScore
                    /\ m.correctnessScore = eResult[i].correctnessScore
           /\ chat'.isCompleted]_vars

C30_Witness ==
  /\ res = Response("submitAnswers", 200, "evaluations")
  /\ chat.isCompleted
  /\ QuestionCount(chat) = 2
  /\ Len(chat.messages) = 4
  /\ chat.messages[2] = PlainMessage("user", TextContent(req.answersText))
  /\ chat.messages[3].content.label = 1
  /\ chat.messages[4].content.label = 2
  /\ chat.messages[3].score # chat.messages[4].score

\* the session holds generated questions: a generateQuestions request has
\* stored its message
HoldsQuestions == chat.messages # <<>>

\* C35 as stated: the stored questions text parses to exactly totalQuestions
\* entries.
C35_ParsesToTotalQuestions ==
  HoldsQuestions => QuestionCount(chat) = chat.totalQuestions

\* a submitAnswers request with a non-blank text arrives for a session that
\* is found and holds generated questions
SubmitArrives ==
  /\ sPc = "idle"
  /\ req'.handler = "submitAnswers"
  /\ req'.found
  /\ Trim(req'.answersText) # <<>>
  /\ HoldsQuestions

\* C35 as amended: the stored text is not checked against totalQuestions; it
\* parses to as many entries as it has numbered lines.  With none,
\* submitAnswers answers 400 'No questions found in session'; otherwise it
\* expects exactly that many answers: a batch is accepted only with that
\* number of answers and one question per answer, and any other number is
\* answered 400.
C35_ExpectsParsedCount ==
  [][SubmitArrives =>
       LET k == QuestionCount(chat)
           given == RecoveredCount(req'.answersText)
       IN  /\ k = 0 => res' = Response("submitAnswers", 400, "No questions found in session")
           /\ (k > 0 /\ given # k)
                => res' = Response("submitAnswers", 400, "Please provide exactly N answers")
           /\ (k > 0 /\ given = k)
                => res'.message \notin {"No questions found in session",
                                        "Please provide exactly N answers"}
           /\ sPc' = "embedding"
                => (Len(sReq'.questions) = k /\ Len(sReq'.answers) = k)]_vars

C35_Witness ==
  /\ sPc = "embedding"
  /\ HoldsQuestions
  /\ QuestionCount(chat) = 2
  /\ chat.totalQuestions = 3
  /\ Len(sReq.answers) = 2

\* ------------------------------------------------ vector search properties
SearchDone == vCall = "findSimilarChunks"
\* similarity of the query to the chunk at position j of the list
SimilarityTo(j) == cosineSimilarity(vQuery, vChunks.items[j].embedding)
\* the call ends in the guard or in the catch block
SearchGivesUp ==
  \/ vQuery.missing
  \/ vChunks.missing
  \/ \E j \in 1..Len(vChunks.items) : SimilarityTo(j).thrown
NumberedChunks == { j \in 1..Len(vChunks.items) : ~SimilarityTo(j).nan }
ReturnedChunks == { vFound[i].index + 1 : i \in 1..Len(vFound) }

\* C11 as stated: for a query vector, a chunk list and k > 0 the call returns
\* exactly min(k, number of chunks) results.
C11_ExactlyMinK ==
  (SearchDone /\ ~vQuery.missing /\ ~vChunks.missing)
    => Len(vFound) = Min(vArg, Len(vChunks.items))

\* C11 amended: the call returns nothing when it gives up (no query vector,
\* no chunk list, or a chunk whose embedding is missing or of another length
\* than the query), and otherwise exactly min(k, m) results, m the number of
\* chunks whose similarity is a number.
C11_MinKOfNumbered ==
  SearchDone
    => Len(vFound) = IF SearchGivesUp THEN 0
                     ELSE Min(vArg, Cardinality(NumberedChunks))

C11_Witness ==
  /\ SearchDone
  /\ ~SearchGivesUp
  /\ Cardinality(NumberedChunks) < Len(vChunks.items)
  /\ vArg < Cardinality(NumberedChunks)
  /\ Len(vFound) = vArg

\* every chunk left out is not more similar than any chunk returned
LeftOutNotGreater ==
  \A j \in NumberedChunks \ ReturnedChunks : \A i \in 1..Len(vFound) :
    ~Greater(SimilarityTo(j), vFound[i].similarity)

\* C12 as stated: each result's similarity is strictly greater than that of
\* the result after it, and no chunk left out is more similar than a result.
C12_StrictlyDescending ==
  SearchDone
    => /\ \A i \in 1..(Len(vFound) - 1) :
            Greater(vFound[i].similarity, vFound[i + 1].similarity)
       /\ LeftOutNotGreater

\* C12 amended: no result's similarity is smaller than that of the result
\* after it (equal similarities stand next to each other), and no chunk left
\* out is more similar than a result.
C12_NeverAscending ==
  SearchDone
    => /\ \A i \in 1..(Len(vFound) - 1) :
            ~Greater(vFound[i + 1].similarity, vFound[i].similarity)
       /\ LeftOutNotGreater

C12_Witness ==
  /\ SearchDone
  /\ Len(vFound) = 2
  /\ Len(vChunks.items) = 3
  /\ vFound[1].similarity = vFound[2].similarity
  /\ vFound[1].similarity # Zero
  /\ \E j \in NumberedChunks \ ReturnedChunks :
       Greater(vFound[2].similarity, SimilarityTo(j))

\* C25: results of equal similarity stand in the order of their positions in
\* the chunk list, and each result carries the (0-based) position, the chunk
\* and the similarity of one chunk of the list.
C25_TiesKeepInputOrder ==
  SearchDone
    => /\ \A i \in 1..Len(vFound) :
            /\ vFound[i].index + 1 \in 1..Len(vChunks.items)
            /\ vFound[i].chunk = vChunks.items[vFound[i].index + 1]
            /\ vFound[i].similarity = SimilarityTo(vFound[i].index + 1)
       /\ \A i \in 1..Len(vFound) : \A j \in 1..Len(vFound) :
            i # j => vFound[i].index # vFound[j].index
       /\ \A i \in 1..(Len(vFound) - 1) :
            (/\ ~Greater(vFound[i].similarity, vFound[i + 1].similarity)
             /\ ~Greater(vFound[i + 1].similarity, vFound[i].similarity))
              => vFound[i].index < vFound[i + 1].index
       /\ \A j \in NumberedChunks \ ReturnedChunks : \A i \in 1..Len(vFound) :
            (/\ ~Greater(vFound[i].similarity, SimilarityTo(j))
             /\ ~Greater(SimilarityTo(j), vFound[i].similarity))
              => vFound[i].index + 1 < j

C25_Witness ==
  /\ SearchDone
  /\ Len(vChunks.items) = 3
  /\ Len(vFound) = 2
  /\ vFound[1].index = 1
  /\ vFound[2].index = 2
  /\ vFound[1].similarity = vFound[2].similarity
  /\ vFound[1].chunk # vFound[2].chunk
  /\ Greater(vFound[1].similarity, SimilarityTo(1))

ZeroMagnitude(v) == ~v.missing /\ ~v.nan /\ Dot(v.values, v.values) = 0
ComparedChunk == vChunks.items[vArg].embedding

\* C13: cosineSimilarity throws when a vector is missing or the lengths
\* differ, and returns 0 when the lengths are equal and a vector has zero
\* magnitude.
C13_MismatchThrowsZeroMagnitudeIsZero ==
  vCall = "cosineSimilarity"
    => IF vQuery.missing \/ ComparedChunk.missing
          \/ Len(vQuery.values) # Len(ComparedChunk.values)
       THEN vSim.thrown
       ELSE (ZeroMagnitude(vQuery) \/ ZeroMagnitude(ComparedChunk)) => vSim = Zero

C13_Witness ==
  /\ vCall = "cosineSimilarity"
  /\ ~vQuery.missing
  /\ Len(vQuery.values) = 2
  /\ ~ZeroMagnitude(vQuery)
  /\ ZeroMagnitude(ComparedChunk)
  /\ vSim = Zero

\* positions of the chunks for which cosineSimilarity throws
ThrowingChunks == { j \in 1..Len(vChunks.items) : SimilarityTo(j).thrown }
ArgumentsGiven == ~vQuery.missing /\ ~vChunks.missing

\* C36: findSimilarChunks always returns a list; when cosineSimilarity throws
\* for a chunk (embedding missing or of another length than the query) the
\* list is empty, whatever the other chunks are; when it throws for none, the
\* list holds min(topK, chunks with a number as similarity) distinct chunks of
\* the input, each with its own similarity.
C36_ErrorGivesEmptyList ==
  (SearchDone /\ ArgumentsGiven)
    => /\ ThrowingChunks # {} => vFound = <<>>
       /\ ThrowingChunks = {}
            => /\ Len(vFound) = Min(vArg, Cardinality(NumberedChunks))
               /\ Cardinality(ReturnedChunks) = Len(vFound)
               /\ ReturnedChunks \subseteq NumberedChunks
               /\ \A i \in 1..Len(vFound) :
                    vFound[i].similarity = SimilarityTo(vFound[i].index + 1)

C36_Witness ==
  /\ SearchDone
  /\ ArgumentsGiven
  /\ Len(vChunks.items) = 3
  /\ Cardinality(ThrowingChunks) = 1
  /\ Cardinality(NumberedChunks \ ThrowingChunks) = 2
  /\ vArg = 2
  /\ vFound = <<>>

\* ----------------------------------------------------- provider properties
RetryCall == gTask = "retryWithBackoff"
NonTransient(kind) == kind \in {"unusable", "permanent"}
Failure(kind) == kind \in {"unusable", "transient", "permanent"}
Calls == 1..Len(gLog)

\* C14: a non-transient error of the wrapped call ends retryWithBackoff at
\* once: no call and no sleep follows it and it is the error thrown; when it
\* is the first call's error, that is one call and no sleep at all.
C14_NonTransientPropagatesAtOnce ==
  \A n \in Calls :
    (RetryCall /\ NonTransient(gLog[n].kind))
      => /\ n = Len(gLog)
         /\ Len(gDelays) = n - 1
         /\ gPc = "rejected"
         /\ gOutcome = Thrown(ErrorOf(gLog, n))
         /\ (\A k \in 1..(n - 1) : gLog[k].kind = "transient")

C14_Witness ==
  /\ RetryCall
  /\ gArgs.retries = MAX_RETRIES
  /\ Len(gLog) = 1
  /\ gLog[1].kind = "permanent"
  /\ gDelays = <<>>
  /\ gOutcome = Thrown(ErrorOf(gLog, 1))

\* retryWithBackoff with the default budget, called directly or by
\* generateEmbedding
DefaultBudgetCall ==
  /\ gTask \in {"retryWithBackoff", "generateEmbedding"}
  /\ gArgs.retries = MAX_RETRIES

\* C15: under transient errors the wrapped call is invoked at most MAX_RETRIES
\* times; the first success is returned and nothing is invoked after it; when
\* the last allowed attempt fails too, its error is the one thrown (by
\* generateEmbedding: in a new Error); an earlier transient error is not
\* thrown.
C15_AtMostMaxRetriesAttempts ==
  DefaultBudgetCall
    => /\ Len(gLog) <= MAX_RETRIES
       /\ \A n \in Calls :
            /\ gLog[n].kind = "ok"
                 => /\ n = Len(gLog)
                    /\ gPc = "resolved"
                    /\ gOutcome = Returned(ValueOf(gLog, n))
            /\ (n = MAX_RETRIES /\ Failure(gLog[n].kind))
                 => /\ gPc = "rejected"
                    /\ gOutcome = Thrown(ThrownBy(gTask, ErrorOf(gLog, n)))
            /\ (n < MAX_RETRIES /\ gLog[n].kind = "transient")
                 => gPc # "rejected" \/ n < Len(gLog)

C15_Witness ==
  /\ RetryCall
  /\ gArgs.retries = MAX_RETRIES
  /\ Len(gLog) = MAX_RETRIES
  /\ \A n \in Calls : gLog[n].kind = "transient"
  /\ gPc = "rejected"
  /\ gOutcome = Thrown(ErrorOf(gLog, MAX_RETRIES))

AllTransient == \A n \in Calls : gLog[n].kind = "transient"

\* a call with the default budget whose attempts all failed transiently
DefaultBudgetExhausted ==
  /\ RetryCall
  /\ gArgs.retries = MAX_RETRIES
  /\ gPc = "rejected"
  /\ AllTransient

RetryOver == gPc \in {"resolved", "rejected"}

\* C27: a retryWithBackoff call (budget of at least one attempt) whose
\* attempts and backoff timers all complete eventually returns or throws, and
\* up to then it has invoked the wrapped function at most `retries` times and
\* slept at most `retries - 1` times; once it is over, it calls and sleeps no
\* more.
C27_RetryTerminates ==
  /\ (RetryCall ~> RetryOver)
  /\ []((RetryCall /\ gArgs.retries >= 1)
          => /\ Len(gLog) <= gArgs.retries
             /\ Len(gDelays) <= gArgs.retries - 1)
  /\ [][(RetryCall /\ RetryOver) => UNCHANGED <<gPc, gLog, gDelays, gOutcome>>]_vars

C27_Witness ==
  /\ RetryCall
  /\ gArgs.retries = MAX_RETRIES
  /\ gPc = "resolved"
  /\ Len(gLog) = MAX_RETRIES
  /\ gLog[MAX_RETRIES].kind = "ok"
  /\ Len(gDelays) = MAX_RETRIES - 1
  /\ gOutcome = Returned(ValueOf(gLog, MAX_RETRIES))

EmbeddingsCall == gTask = "generateEmbeddings"

\* C16: generateEmbeddings issues its provider calls one at a time and in
\* input order (the call for a later text only after an earlier text got its
\* embedding), and resolves with one embedding per text, the i-th being the
\* one the provider returned for the i-th text.
C16_OrderPreserving ==
  EmbeddingsCall
    => /\ \A n \in Calls :
            /\ gLog[n].text = gArgs.texts[gLog[n].pos]
            /\ n < Len(gLog)
                 => /\ gLog[n].kind # "pending"
                    /\ gLog[n].pos <= gLog[n + 1].pos
                    /\ gLog[n].pos < gLog[n + 1].pos
                         => (gLog[n].kind = "ok" /\ gLog[n + 1].pos = gLog[n].pos + 1)
       /\ gPc = "resolved"
            => /\ Len(gEmbeddings) = Len(gArgs.texts)
               /\ \A i \in 1..Len(gEmbeddings) :
                    /\ gEmbeddings[i].call \in Calls
                    /\ gEmbeddings[i] = ValueOf(gLog, gEmbeddings[i].call)
                    /\ gLog[gEmbeddings[i].call].kind = "ok"
                    /\ gEmbeddings[i].pos = i
                    /\ gEmbeddings[i].text = gArgs.texts[i]

C16_Witness ==
  /\ EmbeddingsCall
  /\ gPc = "resolved"
  /\ Len(gArgs.texts) = 2
  /\ gArgs.texts[1] # gArgs.texts[2]
  /\ gLog[1].kind = "transient"
  /\ Len(gLog) > 3
  /\ gEmbeddings[2].text = gArgs.texts[2]

QuestionsCall == gTask = "generateInterviewQuestions"
Whitespace(text) == \A k \in 1..Len(text) : text[k] \in {SP, NL}

\* C17: generateInterviewQuestions throws without any completion call when
\* jdText is missing, empty or whitespace only, or numQuestions is not within
\* 2..10; otherwise the input checks do not fail.
C17_InvalidInputFailsBeforeAnyCall ==
  QuestionsCall
    => IF gArgs.missing \/ Whitespace(gArgs.texts[1]) \/ gArgs.numQuestions \notin 2..10
       THEN gPc = "rejected" /\ gOutcome.status = "thrown" /\ gLog = <<>>
       ELSE /\ gOutcome.error.kind # "validation"
            /\ gPc = "rejected" => Len(gLog) >= 1

C17_Witness ==
  /\ QuestionsCall
  /\ ~gArgs.missing
  /\ ~Whitespace(gArgs.texts[1])
  /\ gArgs.numQuestions > 10
  /\ gPc = "rejected"
  /\ gLog = <<>>

\* ------------------------------------------------------- upload properties
TupleOf(d) == <<d.userId, d.sessionId, d.type>>
NoUploadInFlight == \A p \in Procs : uPc[p] = "idle"

\* C19: with uploadForSession requests served one after another, the store
\* never holds two Documents of the same (userId, sessionId, type); after a
\* 201 the Document of the request's tuple is the one just created, and the
\* Document it found for that tuple is gone.
C19_OneDocumentPerTuple ==
  /\ \A d1 \in store : \A d2 \in store : TupleOf(d1) = TupleOf(d2) => d1 = d2
  /\ (NoUploadInFlight /\ uLast.status = 201)
       => /\ Matching(store, uLast.req.userId, uLast.req.sessionId, uLast.req.type)
               = {Document(uLast.id, uLast.req.userId, uLast.req.sessionId, uLast.req.type)}
          /\ uLast.replaced \notin { d.id : d \in store }
          /\ uLast.replaced # uLast.id

C19_Witness ==
  /\ NoUploadInFlight
  /\ uLast.status = 201
  /\ uLast.replaced # 0
  /\ Cardinality(store) = 2

\* an uploadForSession request that had found a Document for its tuple was
\* answered with an error
FailedAfterFind ==
  /\ NoUploadInFlight
  /\ uLast.status \in {400, 500}
  /\ uLast.replaced # 0

\* C31: when an upload fails after the existing-document check, the Document
\* it found for (userId, sessionId, type) is still in the store.
C31_FailedUploadKeepsDocument ==
  FailedAfterFind
    => \E d \in store :
         /\ d.id = uLast.replaced
         /\ TupleOf(d) = <<uLast.req.userId, uLast.req.sessionId, uLast.req.type>>

\* process p serves an uploadDocument request
ServesUploadDocument(p) == uPc[p] # "idle" /\ uReq[p].sessionId = ""

\* C32: a step of uploadDocument removes no Document that has a sessionId;
\* what it removes is a Document of the same user and type without one.
C32_SessionDocumentsKept ==
  [][\A p \in Procs :
       ServesUploadDocument(p)
         => \A d \in store \ store' :
              /\ d.sessionId = ""
              /\ d.userId = uReq[p].userId
              /\ d.type = uReq[p].type]_vars

\* C33: when the uploadForSession requests, interleaved or not, have all
\* been answered, the store holds at most one Document per (userId,
\* sessionId, type).
C33_InterleavedOnePerTuple ==
  NoUploadInFlight
    => \A d1 \in store : \A d2 \in store \ {d1} : TupleOf(d1) # TupleOf(d2)

====
